---- MODULE Spec2Model ----
(***************************************************************************)
(* moonworm function-call crawler: FunctionCallCrawler.crawl driving a      *)
(* PickleFileState store over a chain served by an EthereumStateProvider.   *)
(* Source: src/moonworm/crawler/function_call_crawler.py                    *)
(***************************************************************************)
EXTENDS Integers, Sequences, FiniteSets, TLC

\* ---- bounds of the model ------------------------------------------------
MaxBlock == 1      \* blocks of the chain are 0..MaxBlock
MaxTx == 2         \* transactions in the whole chain
MaxBatch == 2      \* batch_size is drawn from 1..MaxBatch
MaxCrawls == 2     \* crawl invocations in one behaviour
MaxFaults == 1     \* injected failures (reader, storage, process kill)

\* ---- the chain and the crawl configuration --------------------------------
Addresses == {"A", "B"}
Payloads == {"transfer", "junk"}
\* function names of the interface description (contract_abi)
contract_abi == {"transfer"}

Blocks == 0..MaxBlock

TxShapes == [block_number : Blocks, to : Addresses, data : Payloads]

\* a chain is the list of its transactions in block order
Chains ==
  {c \in UNION {[1..n -> TxShapes] : n \in 0..MaxTx} :
     \A i \in 1..Len(c) : \A j \in 1..Len(c) :
        i < j => c[i].block_number <= c[j].block_number}

AddressLists == {<<"A">>, <<"A", "B">>, <<"A", "A">>}

VARIABLES
  chain,       \* the ledger: transactions in block order
  contract_addresses,  \* FunctionCallCrawler.contract_addresses
  batch,       \* batch_size handed to PickleFileState.__init__
  file,        \* the pickle file at the store's path
  st,          \* the PickleFileState object: state, batch_size, cache_size
  pc,          \* "dead" | "idle" | "addr" | "tx" | "final"
  frame,       \* locals of the running crawl
  cur,         \* the running or most recent crawl invocation and its outcome
  prev,        \* the crawl invocation before cur
  good,        \* the file as left by the last write that completed
  hist,        \* counts since the store was constructed
  faults,      \* failures injected so far
  ncrawls      \* crawl invocations so far

vars == <<chain, contract_addresses, batch, file, st, pc, frame, cur, prev,
          good, hist, faults, ncrawls>>

\* ---- Chain Reader (Web3StateProvider) -------------------------------------
\* a transaction as the reader hands it to the crawler
Transaction(i) ==
  [block_number |-> chain[i].block_number, hash |-> i,
   to |-> chain[i].to, data |-> chain[i].data]

AllTransactions == [i \in 1..Len(chain) |-> Transaction(i)]

\* variant: the destination filter is left out
get_transactions_of_block(address, block_number) ==
  SelectSeq(AllTransactions, LAMBDA tx : tx.block_number = block_number)

get_transactions_to_address(address, block_number) ==
  SelectSeq(AllTransactions,
            LAMBDA tx : tx.block_number = block_number /\ tx.to = address)

get_block_timestamp(block_number) == 1000 + block_number

\* ---- Call Decoder ----------------------------------------------------------
\* contract.decode_function_input raises on a payload outside the interface
Decodes(data) == data \in contract_abi

decode_function_input(data) == data

\* ---- PickleFileState -------------------------------------------------------
initial_state == [last_crawled_block |-> -1, calls |-> <<>>]

NoFile == [kind |-> "missing"]
TornFile == [kind |-> "torn"]

\* pickle.dump / pickle.load of the state dict
PickleDump(state) ==
  [kind |-> "pickle", last_crawled_block |-> state.last_crawled_block,
   calls |-> state.calls]

PickleLoad(f) ==
  [last_crawled_block |-> f.last_crawled_block, calls |-> f.calls]

NoStore == [state |-> initial_state, batch_size |-> 0, cache_size |-> 0]

\* variant: the pending count is cleared before the write is attempted
flush_clears_count_first(s, f, how) ==
  CASE how = "ok" ->
         [st |-> [s EXCEPT !.cache_size = 0], file |-> [kind |-> "pickle",
            last_crawled_block |-> s.state.last_crawled_block,
            calls |-> s.state.calls],
          raised |-> FALSE, wrote |-> TRUE]
    [] how = "open" ->
         [st |-> [s EXCEPT !.cache_size = 0], file |-> f, raised |-> TRUE,
          wrote |-> FALSE]
    [] how = "dump" ->
         [st |-> [s EXCEPT !.cache_size = 0], file |-> [kind |-> "torn"],
          raised |-> TRUE, wrote |-> FALSE]

\* variant: the call list held in memory is emptied once it is written
flush_drops_written_calls(s, f, how) ==
  CASE how = "ok" ->
         [st |-> [s EXCEPT !.cache_size = 0, !.state.calls = <<>>],
          file |-> [kind |-> "pickle",
                    last_crawled_block |-> s.state.last_crawled_block,
                    calls |-> s.state.calls],
          raised |-> FALSE, wrote |-> TRUE]
    [] how = "open" -> [st |-> s, file |-> f, raised |-> TRUE, wrote |-> FALSE]
    [] how = "dump" ->
         [st |-> s, file |-> [kind |-> "torn"], raised |-> TRUE,
          wrote |-> FALSE]

\* flush(): open(pickle_file, "wb") truncates the file, pickle.dump rewrites
\* it in full, then the pending count is cleared.  how = "ok" | "open" | "dump":
\* the write completes, open raises (file untouched), or dump raises after the
\* truncation (file left torn).  cache_size is cleared only on completion.
flush(s, f, how) ==
  CASE how = "ok" ->
         [st |-> [s EXCEPT !.cache_size = 0], file |-> PickleDump(s.state),
          raised |-> FALSE, wrote |-> TRUE]
    [] how = "open" -> [st |-> s, file |-> f, raised |-> TRUE, wrote |-> FALSE]
    [] how = "dump" ->
         [st |-> s, file |-> TornFile, raised |-> TRUE, wrote |-> FALSE]

\* variant: the auto-flush test is off by one
BatchOverfull(s) == s.cache_size > s.batch_size

\* the auto-flush test of register_call
BatchFull(s) == s.cache_size = s.batch_size

\* variant: the cursor only moves forward
AdvanceCursorMax(last_crawled_block, block_number) ==
  IF block_number > last_crawled_block THEN block_number
  ELSE last_crawled_block

\* the cursor assignment of register_call
AdvanceCursor(last_crawled_block, block_number) == block_number

\* variant: the call is inserted at the head of the list
register_call_at_head(s, f, function_call, how) ==
  LET s1 == [s EXCEPT
               !.state.calls = <<function_call>> \o @,
               !.cache_size = @ + 1,
               !.state.last_crawled_block =
                   AdvanceCursor(@, function_call.block_number)]
  IN IF BatchFull(s1) THEN flush(s1, f, how)
     ELSE [st |-> s1, file |-> f, raised |-> FALSE, wrote |-> FALSE]

register_call(s, f, function_call, how) ==
  LET s1 == [s EXCEPT
               !.state.calls = Append(@, function_call),
               !.cache_size = @ + 1,
               !.state.last_crawled_block =
                   AdvanceCursor(@, function_call.block_number)]
  IN IF BatchFull(s1) THEN flush(s1, f, how)
     ELSE [st |-> s1, file |-> f, raised |-> FALSE, wrote |-> FALSE]

\* variant: the cursor is taken as the highest block among the calls
RECURSIVE HighestBlock(_)
HighestBlock(calls) ==
  IF calls = <<>> THEN -1
  ELSE LET rest == HighestBlock(Tail(calls))
       IN IF Head(calls).block_number > rest THEN Head(calls).block_number
          ELSE rest

get_highest_called_block(s) == HighestBlock(s.state.calls)

get_last_crawled_block(s) == s.state.last_crawled_block

\* variant: the constructor never reads the file
ConstructStateFresh(f) == initial_state

\* PickleFileState.__init__ on a path holding file f: the state it takes
ConstructState(f) ==
  IF f.kind = "missing" THEN initial_state ELSE PickleLoad(f)

\* PickleFileState.__init__: the object, and the file it leaves at the path
PickleFileState(f, batch_size) ==
  [st |-> [state |-> ConstructState(f), batch_size |-> batch_size,
           cache_size |-> 0],
   file |-> IF f.kind = "missing" THEN PickleDump(initial_state) ELSE f]

\* ---- FunctionCallCrawler ---------------------------------------------------
\* the call record process_transaction builds; caller_address and
\* function_args are copied from the transaction like the fields kept here
ContractFunctionCall(transaction) ==
  [block_number |-> transaction.block_number,
   block_timestamp |-> get_block_timestamp(transaction.block_number),
   transaction_hash |-> transaction.hash,
   contract_address |-> transaction.to,
   function_name |-> decode_function_input(transaction.data)]

\* variant: range(from_block, to_block)
LastBlockExclusive(to_block) == to_block - 1

\* range(from_block, to_block + 1)
LastBlockOfRange(to_block) == to_block

NoFrame ==
  [from_block |-> 0, to_block |-> 0, flush_state |-> FALSE, block_number |-> 0,
   ai |-> 0, transactions |-> <<>>, ti |-> 0]

\* the calls crawl makes on the state provider, as records of a log
TransactionsRead(block_number, ai) ==
  [op |-> "get_transactions_to_address", block_number |-> block_number,
   ai |-> ai]

TimestampRead(block_number) ==
  [op |-> "get_block_timestamp", block_number |-> block_number, ai |-> 0]

\* reads: the reads the crawl has issued on the state provider, in order
NoCrawl ==
  [from_block |-> 0, to_block |-> -1, flush_state |-> FALSE,
   start |-> NoStore, res |-> "none", reads |-> <<>>]

\* reg: register_call operations, auto: writes done by its auto-flush, plain:
\* no flush() by a caller and no flush that raised, last: the last operation
NoHist == [reg |-> 0, auto |-> 0, plain |-> TRUE, last |-> "construct"]

Running == pc \in {"addr", "tx", "final"}

\* variant: the loops are nested the other way, every block of one address
\* before the next address
AdvanceFrameAddressMajor(fr) ==
  IF fr.block_number < LastBlockOfRange(fr.to_block)
  THEN [fr EXCEPT !.block_number = @ + 1, !.transactions = <<>>, !.ti = 0]
  ELSE IF fr.ai < Len(contract_addresses)
  THEN [fr EXCEPT !.block_number = fr.from_block, !.ai = @ + 1,
                  !.transactions = <<>>, !.ti = 0]
  ELSE [fr EXCEPT !.transactions = <<>>, !.ti = 0, !.ai = 0]

\* the loop headers of crawl after the transactions of (block_number, ai) are
\* done: next address, else next block, else the end of the range
AdvanceFrame(fr) ==
  IF fr.ai < Len(contract_addresses)
  THEN [fr EXCEPT !.ai = @ + 1, !.transactions = <<>>, !.ti = 0]
  ELSE IF fr.block_number < LastBlockOfRange(fr.to_block)
  THEN [fr EXCEPT !.block_number = @ + 1, !.ai = 1, !.transactions = <<>>,
                  !.ti = 0]
  ELSE [fr EXCEPT !.transactions = <<>>, !.ti = 0, !.ai = 0]

AdvancePc(fr) ==
  IF fr.ai < Len(contract_addresses) \/ fr.block_number < LastBlockOfRange(fr.to_block)
  THEN "addr" ELSE "final"

\* the transactions crawl visits from (block_number, ai) to the end of the
\* range: block ascending, then address-list order, then reader order
RECURSIVE VisitOrder(_, _, _)
VisitOrder(block_number, ai, to_block) ==
  IF block_number > LastBlockOfRange(to_block) THEN <<>>
  ELSE IF ai > Len(contract_addresses)
  THEN VisitOrder(block_number + 1, 1, to_block)
  ELSE get_transactions_to_address(contract_addresses[ai], block_number)
         \o VisitOrder(block_number, ai + 1, to_block)

\* process_transaction on each of txs in turn, every flush completing
RECURSIVE ProcessAll(_, _)
ProcessAll(r, txs) ==
  IF txs = <<>> THEN r
  ELSE ProcessAll(register_call(r.st, r.file, ContractFunctionCall(Head(txs)), "ok"),
                  Tail(txs))

\* crawl(from_block, to_block, flush_state) run to its return on store s and
\* file f, no statement raising
crawl(s, f, from_block, to_block, flush_state) ==
  LET r == ProcessAll([st |-> s, file |-> f, raised |-> FALSE, wrote |-> FALSE],
                      VisitOrder(from_block, 1, to_block))
  IN IF flush_state THEN flush(r.st, r.file, "ok") ELSE r

Init ==
  /\ chain \in Chains
  /\ contract_addresses \in AddressLists
  /\ batch \in 1..MaxBatch
  /\ file = NoFile
  /\ st = NoStore
  /\ pc = "dead"
  /\ frame = NoFrame
  /\ cur = NoCrawl
  /\ prev = NoCrawl
  /\ good = NoFile
  /\ hist = NoHist
  /\ faults = 0
  /\ ncrawls = 0

\* PickleFileState(pickle_file, batch_size) in a new process.  On a torn file
\* pickle.load raises and no store object results.
Construct ==
  /\ pc = "dead"
  /\ file.kind # "torn"
  /\ st' = PickleFileState(file, batch).st
  /\ file' = PickleFileState(file, batch).file
  /\ good' = file'
  /\ hist' = NoHist
  /\ pc' = "idle"
  /\ UNCHANGED <<chain, contract_addresses, batch, frame, cur, prev, faults, ncrawls>>

\* crawl(from_block, to_block, flush_state) is entered
StartCrawl(from_block, to_block, flush_state) ==
  /\ pc = "idle"
  /\ ncrawls < MaxCrawls
  /\ ncrawls' = ncrawls + 1
  /\ prev' = cur
  /\ cur' = [from_block |-> from_block, to_block |-> to_block,
             flush_state |-> flush_state, start |-> st, res |-> "running",
             reads |-> <<>>]
  /\ frame' = [from_block |-> from_block, to_block |-> to_block,
               flush_state |-> flush_state, block_number |-> from_block,
               ai |-> IF from_block <= LastBlockOfRange(to_block) THEN 1 ELSE 0,
               transactions |-> <<>>, ti |-> 0]
  /\ pc' = IF from_block <= LastBlockOfRange(to_block) THEN "addr" ELSE "final"
  /\ UNCHANGED <<chain, contract_addresses, batch, file, st, good, hist, faults>>

\* variant: the final flush runs on the way out of an exception as well
FileFlushedOnAbort(s, f) == PickleDump(s.state)

\* an exception skips the rest of crawl, its final flush included: the file
\* is the one the raising statement left
FileAfterAbort(s, f) == f

\* an exception leaves crawl: nothing after the raising statement runs
Abort(res, reads) ==
  /\ cur' = [cur EXCEPT !.res = res, !.reads = reads]
  /\ frame' = NoFrame
  /\ pc' = "idle"

\* get_transactions_to_address for the current (block, address)
GetTransactions ==
  /\ pc = "addr"
  /\ LET txs == get_transactions_to_address(contract_addresses[frame.ai],
                                            frame.block_number)
     IN IF txs # <<>>
        THEN /\ frame' = [frame EXCEPT !.transactions = txs, !.ti = 1]
             /\ pc' = "tx"
        ELSE /\ frame' = AdvanceFrame(frame)
             /\ pc' = AdvancePc(frame)
  /\ cur' = [cur EXCEPT !.reads =
                Append(@, TransactionsRead(frame.block_number, frame.ai))]
  /\ UNCHANGED <<chain, contract_addresses, batch, file, st, prev, good,
                 hist, faults, ncrawls>>

\* the reader raises (transport / not found) in get_transactions_to_address
GetTransactionsFails ==
  /\ pc = "addr"
  /\ faults < MaxFaults
  /\ faults' = faults + 1
  /\ Abort("reader",
           Append(cur.reads, TransactionsRead(frame.block_number, frame.ai)))
  /\ file' = FileAfterAbort(st, file)
  /\ UNCHANGED <<chain, contract_addresses, batch, st, prev, good, hist, ncrawls>>

\* the step of crawl after one transaction is processed
AfterTransaction ==
  IF frame.ti < Len(frame.transactions)
  THEN /\ frame' = [frame EXCEPT !.ti = @ + 1]
       /\ pc' = "tx"
  ELSE /\ frame' = AdvanceFrame(frame)
       /\ pc' = AdvancePc(frame)

\* the history counts after one register_call
Registered(r) ==
  [reg |-> hist.reg + 1,
   auto |-> IF r.wrote THEN hist.auto + 1 ELSE hist.auto,
   plain |-> hist.plain /\ ~r.raised,
   last |-> IF r.raised THEN "flush_raised"
            ELSE IF r.wrote THEN "flush" ELSE "register"]

\* the history after a flush() called by crawl or by the caller
Flushed(r) ==
  [hist EXCEPT !.plain = FALSE,
               !.last = IF r.raised THEN "flush_raised" ELSE "flush"]

\* process_transaction(transactions[ti]): decode, read the block timestamp,
\* build the call, register it (with the auto-flush of a full batch)
ProcessTransaction ==
  /\ pc = "tx"
  /\ LET transaction == frame.transactions[frame.ti]
     IN IF ~Decodes(transaction.data)
        THEN \* decode_function_input raises; crawl has no handler
             /\ Abort("decode", cur.reads)
             /\ file' = FileAfterAbort(st, file)
             /\ UNCHANGED <<st, good, hist>>
        ELSE LET r == register_call(st, file, ContractFunctionCall(transaction), "ok")
             IN /\ st' = r.st
                /\ file' = r.file
                /\ good' = IF r.wrote THEN r.file ELSE good
                /\ hist' = Registered(r)
                /\ AfterTransaction
                /\ cur' = [cur EXCEPT !.reads =
                              Append(@, TimestampRead(transaction.block_number))]
  /\ UNCHANGED <<chain, contract_addresses, batch, prev, faults, ncrawls>>

\* the reader raises in get_block_timestamp, after the decode and before the
\* call is built
GetBlockTimestampFails ==
  /\ pc = "tx"
  /\ Decodes(frame.transactions[frame.ti].data)
  /\ faults < MaxFaults
  /\ faults' = faults + 1
  /\ Abort("reader",
           Append(cur.reads,
                  TimestampRead(frame.transactions[frame.ti].block_number)))
  /\ file' = FileAfterAbort(st, file)
  /\ UNCHANGED <<chain, contract_addresses, batch, st, prev, good, hist, ncrawls>>

StorageFailures == {"open", "dump"}

\* the auto-flush of register_call raises a storage error: the call is already
\* appended and counted, and the exception leaves crawl
AutoFlushFails(how) ==
  /\ pc = "tx"
  /\ Decodes(frame.transactions[frame.ti].data)
  /\ faults < MaxFaults
  /\ LET r == register_call(st, file,
                            ContractFunctionCall(frame.transactions[frame.ti]), how)
     IN /\ r.raised
        /\ st' = r.st
        /\ file' = r.file
        /\ hist' = Registered(r)
  /\ faults' = faults + 1
  /\ Abort("storage_" \o how,
           Append(cur.reads,
                  TimestampRead(frame.transactions[frame.ti].block_number)))
  /\ UNCHANGED <<chain, contract_addresses, batch, prev, good, ncrawls>>

\* the end of crawl: "if flush_state: self.state.flush()"
FinishCrawl ==
  /\ pc = "final"
  /\ IF frame.flush_state
     THEN LET r == flush(st, file, "ok")
          IN /\ st' = r.st
             /\ file' = r.file
             /\ good' = r.file
             /\ hist' = Flushed(r)
     ELSE UNCHANGED <<st, file, good, hist>>
  /\ cur' = [cur EXCEPT !.res = "returned"]
  /\ frame' = NoFrame
  /\ pc' = "idle"
  /\ UNCHANGED <<chain, contract_addresses, batch, prev, faults, ncrawls>>

\* the final flush raises a storage error
FinishCrawlFails(how) ==
  /\ pc = "final"
  /\ frame.flush_state
  /\ faults < MaxFaults
  /\ LET r == flush(st, file, how)
     IN /\ r.raised
        /\ st' = r.st
        /\ file' = r.file
        /\ hist' = Flushed(r)
  /\ faults' = faults + 1
  /\ Abort("storage_" \o how, cur.reads)
  /\ UNCHANGED <<chain, contract_addresses, batch, prev, good, ncrawls>>

\* the caller invokes flush() between crawls
ExplicitFlush ==
  /\ pc = "idle"
  /\ LET r == flush(st, file, "ok")
     IN /\ st' = r.st
        /\ file' = r.file
        /\ good' = r.file
        /\ hist' = Flushed(r)
  /\ UNCHANGED <<chain, contract_addresses, batch, pc, frame, cur, prev, faults,
                 ncrawls>>

ExplicitFlushFails(how) ==
  /\ pc = "idle"
  /\ faults < MaxFaults
  /\ LET r == flush(st, file, how)
     IN /\ r.raised
        /\ st' = r.st
        /\ file' = r.file
        /\ hist' = Flushed(r)
  /\ faults' = faults + 1
  /\ UNCHANGED <<chain, contract_addresses, batch, pc, frame, cur, prev, good,
                 ncrawls>>

\* the process is terminated: the store object and the crawl's locals are gone,
\* the file stays as it is
Kill ==
  /\ pc # "dead"
  /\ faults < MaxFaults
  /\ faults' = faults + 1
  /\ st' = NoStore
  /\ frame' = NoFrame
  /\ pc' = "dead"
  /\ cur' = IF Running THEN [cur EXCEPT !.res = "killed"] ELSE cur
  /\ UNCHANGED <<chain, contract_addresses, batch, file, prev, good, hist, ncrawls>>

Next ==
  \/ Construct
  \/ \E from_block \in 0..(MaxBlock + 1) : \E to_block \in Blocks :
       \E flush_state \in BOOLEAN :
          /\ from_block <= to_block + 1
          /\ StartCrawl(from_block, to_block, flush_state)
  \/ GetTransactions
  \/ GetTransactionsFails
  \/ ProcessTransaction
  \/ GetBlockTimestampFails
  \/ \E how \in StorageFailures : AutoFlushFails(how)
  \/ FinishCrawl
  \/ \E how \in StorageFailures : FinishCrawlFails(how)
  \/ ExplicitFlush
  \/ \E how \in StorageFailures : ExplicitFlushFails(how)
  \/ Kill

Spec == Init /\ [][Next]_vars

\* ---- vocabulary of the properties ----------------------------------------
Watched == {contract_addresses[i] : i \in DOMAIN contract_addresses}

\* hashes of the transactions of blocks a..b sent to a watched address
ToWatched(a, b) ==
  {i \in 1..Len(chain) :
     /\ chain[i].block_number \in a..b
     /\ chain[i].to \in Watched}

\* ... whose payload decodes against the interface description
Matching(a, b) == {i \in ToWatched(a, b) : Decodes(chain[i].data)}

Hashes(calls) == {calls[k].transaction_hash : k \in 1..Len(calls)}

Count(calls, h) ==
  Cardinality({k \in 1..Len(calls) : calls[k].transaction_hash = h})

NoDuplicateAddress ==
  \A i \in DOMAIN contract_addresses : \A j \in DOMAIN contract_addresses :
     contract_addresses[i] = contract_addresses[j] => i = j

\* the latest crawl returned normally and nothing ran on the store since
JustReturned == pc = "idle" /\ cur.res = "returned" /\ hist.last # "construct"

\* ---- C1 --------------------------------------------------------------------
\* C1: after crawl(a, b, flush_state=True) with a <= b returns,
\* get_last_crawled_block() equals b, also when block b holds no transaction
\* to a watched address.
C1_CursorIsToBlock ==
  (JustReturned /\ cur.flush_state /\ cur.from_block <= cur.to_block)
     => get_last_crawled_block(st) = cur.to_block

\* ---- C2 --------------------------------------------------------------------
\* C2: starting from a fresh store, after crawl(a, b, flush_state=True)
\* returns, the call list in the file holds a record of a transaction exactly
\* when the transaction is in a block of [a,b], goes to a watched address and
\* decodes; each record is the call built from that transaction.
C2_FreshCrawlPersistsMatching ==
  (/\ JustReturned
   /\ cur.flush_state
   /\ cur.start.state = initial_state
   /\ hist.last = "flush")
     => /\ file.kind = "pickle"
        /\ Hashes(file.calls) = Matching(cur.from_block, cur.to_block)
        /\ \A k \in 1..Len(file.calls) :
              file.calls[k] =
                 ContractFunctionCall(Transaction(file.calls[k].transaction_hash))

\* a fresh crawl that persisted a call and passed over a transaction of its
\* range that goes to an address outside the watched list
C2_Witness ==
  /\ JustReturned
  /\ cur.flush_state
  /\ cur.start.state = initial_state
  /\ hist.last = "flush"
  /\ file.kind = "pickle"
  /\ Len(file.calls) >= 1
  /\ \E i \in 1..Len(chain) :
        /\ chain[i].block_number \in cur.from_block..cur.to_block
        /\ chain[i].to \notin Watched

\* ---- C3 --------------------------------------------------------------------
\* C3: a crawl(a, b) on a fresh store is killed, a new store is constructed
\* from the file and crawl(get_last_crawled_block() + 1, b, True) returns: the
\* file then holds every decodable transaction of [a,b] to a watched address
\* exactly once (stated for watched lists without a repeated address).
C3_ResumeCoversRange ==
  (/\ JustReturned
   /\ hist.last = "flush"
   /\ cur.flush_state
   /\ prev.res = "killed"
   /\ prev.start.state = initial_state
   /\ cur.from_block = get_last_crawled_block(cur.start) + 1
   /\ cur.to_block = prev.to_block
   /\ NoDuplicateAddress)
     => /\ file.kind = "pickle"
        /\ \A i \in Matching(prev.from_block, prev.to_block) :
              Count(file.calls, i) = 1

\* ---- C4 --------------------------------------------------------------------
\* C4: a transaction to a watched address whose payload does not decode does
\* not raise out of crawl.
C4_DecodeFailureDoesNotRaise == cur.res # "decode"

\* ---- C5 --------------------------------------------------------------------
\* C5: each last_crawled_block written to the file is at least the one
\* written before it.
C5_PersistedCursorNeverDecreases ==
  [][(file.kind = "pickle" /\ file'.kind = "pickle")
        => file'.last_crawled_block >= file.last_crawled_block]_vars

\* ---- C6 --------------------------------------------------------------------
\* C6: crawl(a, b, True) followed by crawl(b + 1, c, True), a <= b < c, leaves
\* the cursor, the call list and the file that crawl(a, c, True) alone leaves
\* from the same starting store.
C6_ResumptionEquivalence ==
  (/\ JustReturned
   /\ faults = 0
   /\ cur.flush_state
   /\ prev.res = "returned"
   /\ prev.flush_state
   /\ prev.from_block <= prev.to_block
   /\ cur.from_block = prev.to_block + 1
   /\ cur.from_block <= cur.to_block)
     => LET whole == crawl(prev.start, NoFile, prev.from_block, cur.to_block, TRUE)
        IN /\ st.state = whole.st.state
           /\ file = whole.file

\* the two crawls each registered a call, with a batch of two: the single
\* crawl auto-flushes on the second call, the split one never does
C6_Witness ==
  /\ JustReturned
  /\ faults = 0
  /\ cur.flush_state
  /\ prev.res = "returned"
  /\ prev.flush_state
  /\ prev.from_block <= prev.to_block
  /\ cur.from_block = prev.to_block + 1
  /\ cur.from_block <= cur.to_block
  /\ st.batch_size = 2
  /\ Len(prev.start.state.calls) = 0
  /\ Len(cur.start.state.calls) = 1
  /\ Len(st.state.calls) = 2

\* ---- C7 --------------------------------------------------------------------
\* C7: on a constructed store with batch size N, after k register_call
\* operations with no flush() by a caller and no flush that raised, exactly
\* k \div N auto-flush writes have happened.
C7_AutoFlushCount ==
  (pc # "dead" /\ hist.plain) => hist.auto = hist.reg \div st.batch_size

\* four calls registered with a batch of two: two auto-flushes
C7_Witness ==
  /\ pc # "dead"
  /\ hist.plain
  /\ st.batch_size = 2
  /\ hist.reg = 4
  /\ hist.auto = 2

\* ---- C8 --------------------------------------------------------------------
\* C8: after a flush that completed, a new PickleFileState on the same path
\* has the cursor, the call list and the pending count 0 of the flushed store;
\* on a path that does not exist it has cursor -1 and no calls.
C8_ReloadRoundTrip ==
  /\ (pc # "dead" /\ hist.last = "flush")
        => PickleFileState(file, st.batch_size).st = st
  /\ file.kind = "missing"
        => /\ get_last_crawled_block(PickleFileState(file, batch).st) = -1
           /\ PickleFileState(file, batch).st.state.calls = <<>>

\* a store flushed with two calls in its list
C8_Witness ==
  /\ pc # "dead"
  /\ hist.last = "flush"
  /\ Len(st.state.calls) >= 2
  /\ get_last_crawled_block(st) >= 0

\* ---- C9 --------------------------------------------------------------------
\* C9: the calls registered in memory and absent from the file number at most
\* N, also after a flush raised and registration went on.
C9_UnflushedWithinBatch ==
  (pc # "dead" /\ file.kind = "pickle")
     => Len(st.state.calls) - Len(file.calls) <= st.batch_size

\* ---- C10 -------------------------------------------------------------------
AbortsBeforeWrite == {"reader", "decode", "storage_open"}

Appended ==
  SubSeq(st.state.calls, Len(cur.start.state.calls) + 1, Len(st.state.calls))

IsPrefix(p, q) == Len(p) <= Len(q) /\ SubSeq(q, 1, Len(p)) = p

\* no call was registered since the store was constructed or last flushed
NothingPending == pc # "dead" /\ hist.last \in {"construct", "flush"}

C12_RecrawlDoubles ==
  (/\ JustReturned
   /\ faults = 0
   /\ cur.flush_state
   /\ prev.res = "returned"
   /\ prev.flush_state
   /\ prev.start.state = initial_state
   /\ cur.from_block = prev.from_block
   /\ cur.to_block = prev.to_block)
     => /\ \A i \in Matching(cur.from_block, cur.to_block) :
              Count(st.state.calls, i) = 2
        /\ st.state.calls = cur.start.state.calls \o cur.start.state.calls
        /\ get_last_crawled_block(st) = get_last_crawled_block(cur.start)
        /\ file = PickleDump(st.state)

\* ---- C13 -------------------------------------------------------------------
\* C13: every call record in the file has a block number at most the file's
\* last_crawled_block.
C13_CallsBelowCursor ==
  file.kind = "pickle"
     => \A k \in 1..Len(file.calls) :
           file.calls[k].block_number <= file.last_crawled_block

\* ---- C14 -------------------------------------------------------------------
\* C14: a flush that raises before the file is written leaves the call list,
\* the cursor and the pending count as they were (after the registration, when
\* it is the auto-flush of register_call); calls never leave the in-memory
\* list; and a flush that completes writes the whole in-memory state.
C14_FailedFlushKeepsMemory ==
  [][/\ (/\ faults' = faults + 1
         /\ hist'.last = "flush_raised"
         /\ pc' # "dead"
         /\ file' = file
         /\ hist'.reg = hist.reg)
           => st' = st
     /\ (/\ faults' = faults + 1
         /\ hist'.last = "flush_raised"
         /\ file' = file
         /\ hist'.reg = hist.reg + 1)
           => /\ st'.cache_size = st.cache_size + 1
              /\ Len(st'.state.calls) = Len(st.state.calls) + 1
              /\ IsPrefix(st.state.calls, st'.state.calls)
     /\ (pc # "dead" /\ pc' # "dead")
           => IsPrefix(st.state.calls, st'.state.calls)
     /\ (/\ pc # "dead"
         /\ pc' # "dead"
         /\ hist'.last = "flush"
         /\ hist'.reg = hist.reg)
           => /\ st'.state = st.state
              /\ file' = PickleDump(st.state)]_vars

\* the auto-flush of a crawl raised in open, and a later flush() wrote the
\* calls registered so far
C14_Witness ==
  /\ pc = "idle"
  /\ cur.res = "storage_open"
  /\ hist.last = "flush"
  /\ hist.reg >= 1
  /\ file = PickleDump(st.state)
  /\ Len(file.calls) >= 1

\* ---- C15 -------------------------------------------------------------------
\* C15: while a crawl runs, the records it has appended are the calls of the
\* first transactions in visiting order (block ascending, then address-list
\* order, then reader order), all of them at the end of the range; their block
\* numbers do not decrease; the file's list is a prefix of the in-memory one.
C15_RegisteredInVisitingOrder ==
  Running =>
    LET visited == VisitOrder(cur.from_block, 1, cur.to_block)
    IN /\ Len(Appended) <= Len(visited)
       /\ \A k \in 1..Len(Appended) :
             Appended[k] = ContractFunctionCall(visited[k])
       /\ pc = "final" => Len(Appended) = Len(visited)
       /\ \A k \in 1..(Len(Appended) - 1) :
             Appended[k].block_number <= Appended[k + 1].block_number
       /\ IsPrefix(cur.start.state.calls, st.state.calls)
       /\ file.kind = "pickle" => IsPrefix(file.calls, st.state.calls)

\* a crawl at the end of its range that registered a transaction to the first
\* watched address before an earlier transaction of the block to the second
C15_Witness ==
  /\ pc = "final"
  /\ Len(Appended) = 2
  /\ Appended[1].transaction_hash > Appended[2].transaction_hash
  /\ Appended[1].contract_address # Appended[2].contract_address

\* ---- C16 -------------------------------------------------------------------
\* C16: within one crawl each transaction is registered at most once, for
\* every watched list, one with a repeated address included.
C16_RegisteredAtMostOnce ==
  Running => \A h \in 1..Len(chain) : Count(Appended, h) <= 1

\* ---- C17 -------------------------------------------------------------------
\* the (block, address) reads crawl issues from (block_number, ai) to the end
\* of the range when nothing fails
RECURSIVE ReadOrder(_, _, _)
ReadOrder(block_number, ai, to_block) ==
  IF block_number > to_block THEN <<>>
  ELSE IF ai > Len(contract_addresses)
  THEN ReadOrder(block_number + 1, 1, to_block)
  ELSE <<[op |-> "get_transactions_to_address",
          block_number |-> block_number, ai |-> ai]>>
         \o ReadOrder(block_number, ai + 1, to_block)

PairReads(reads) ==
  SelectSeq(reads, LAMBDA r : r.op = "get_transactions_to_address")

TimestampReads(reads) ==
  SelectSeq(reads, LAMBDA r : r.op = "get_block_timestamp")

\* the calls store s holds beyond those crawl c started with
AppendedBy(s, c) ==
  SubSeq(s.state.calls, Len(c.start.state.calls) + 1, Len(s.state.calls))

\* C17: on the step on which a reader failure leaves crawl, the failing read
\* is the last read issued and was issued once, at a block of the range; the
\* (block, address) reads issued are a prefix of the order of the range that
\* ends at the failing position, so no later pair was read; one timestamp was
\* read per registered call; the store in memory is untouched by the
\* failure, holds the calls registered before it after those it started
\* with, and its cursor is the block of the last call the crawl registered
\* (the cursor the crawl started with when it registered none).
C17_ReaderFailurePropagates ==
  [][(Running /\ cur'.res = "reader")
       => LET reads == cur'.reads
              failing == reads[Len(reads)]
              pairs == PairReads(reads)
              appended == AppendedBy(st', cur')
          IN /\ pc' = "idle"
             /\ reads = Append(cur.reads, failing)
             /\ failing.block_number \in cur.from_block..cur.to_block
             /\ pairs # <<>>
             /\ IsPrefix(pairs, ReadOrder(cur.from_block, 1, cur.to_block))
             /\ pairs[Len(pairs)].block_number = failing.block_number
             /\ failing.op = "get_transactions_to_address"
                  => /\ pairs[Len(pairs)] = failing
                     /\ Len(TimestampReads(reads)) = Len(appended)
             /\ failing.op = "get_block_timestamp"
                  => Len(TimestampReads(reads)) = Len(appended) + 1
             /\ st' = st
             /\ IsPrefix(cur.start.state.calls, st'.state.calls)
             /\ \A k \in 1..Len(appended) :
                  appended[k].block_number <= failing.block_number
             /\ get_last_crawled_block(st') =
                  IF appended = <<>> THEN get_last_crawled_block(cur.start)
                  ELSE appended[Len(appended)].block_number]_vars

\* a reader failure has left a crawl that had registered a call, at a block
\* past the one of that call and with pairs of the range still unread
C17_Witness ==
  /\ pc = "idle"
  /\ cur.res = "reader"
  /\ AppendedBy(st, cur) # <<>>
  /\ Len(PairReads(cur.reads)) <
       Len(ReadOrder(cur.from_block, 1, cur.to_block))
  /\ cur.reads[Len(cur.reads)].block_number > get_last_crawled_block(st)

\* ---- C18 -------------------------------------------------------------------
\* C18: whenever the last register_call or flush returned normally, the
\* pending count is at least 0 and below the batch size, also after an
\* auto-flush that raised a storage error and further registrations.
C18_PendingCountBelowBatch ==
  (pc # "dead" /\ hist.last \in {"register", "flush"})
    => st.cache_size \in 0..(st.batch_size - 1)

C20_FileIsPrefixOfMemory ==
  pc # "dead" => (file.kind = "pickle" /\ IsPrefix(file.calls, st.state.calls))

\* C20 amended: whenever the file of a live store holds a complete blob, its
\* call list is a prefix of the call list in memory, and right after a flush
\* that returned (explicit or automatic) the file holds exactly the cursor and
\* the call list in memory.
C20_CompleteFileIsPrefixOfMemory ==
  /\ (pc # "dead" /\ file.kind = "pickle")
       => IsPrefix(file.calls, st.state.calls)
  /\ (pc # "dead" /\ hist.last = "flush")
       => /\ file.kind = "pickle"
          /\ file.last_crawled_block = st.state.last_crawled_block
          /\ file.calls = st.state.calls

\* the file holds a complete blob that is strictly shorter than memory, after
\* an auto-flush has written
C20_Witness ==
  /\ pc # "dead"
  /\ file.kind = "pickle"
  /\ hist.auto >= 1
  /\ file.calls # <<>>
  /\ Len(file.calls) < Len(st.state.calls)

====
